---- MODULE Spec2Model ----
(***************************************************************************)
(* A model of the AI-tool directory crawler: src/src/crawler.py            *)
(* (AICrawler, run_crawler), src/src/parser.py (AIToolParser) and          *)
(* src/src/utils.py (clean_text, create_tool_item, get_retry_delay).       *)
(*                                                                         *)
(* Text is a sequence of one-character strings.  A page's markup is a      *)
(* record of the elements the parser looks for.  The coroutines of the     *)
(* asyncio program are fibers that move between their await points.        *)
(***************************************************************************)
EXTENDS Integers, Sequences, FiniteSets, TLC

(***************************************************************************)
(* Bounds of the model.                                                    *)
(***************************************************************************)
MaxPages == 3
MaxRetries == 2
MaxAttempt == 8
MaxLinks == 2
MaxCards == 3
MaxText == 3

(***************************************************************************)
(* Text.                                                                   *)
(***************************************************************************)
SP == " "
NL == "\n"
CR == "\r"
TAB == "\t"

\* the characters str.strip() removes from both ends
Whitespace == {SP, NL, CR, TAB}

Digits == {"0", "1", "2", "3", "4", "5", "6", "7", "8", "9"}

RECURSIVE lstrip(_)
lstrip(s) ==
    IF s = <<>> THEN <<>>
    ELSE IF Head(s) \in Whitespace THEN lstrip(Tail(s))
    ELSE s

RECURSIVE rstrip(_)
rstrip(s) ==
    IF s = <<>> THEN <<>>
    ELSE IF s[Len(s)] \in Whitespace THEN rstrip(SubSeq(s, 1, Len(s) - 1))
    ELSE s

\* str.strip()
strip(s) == rstrip(lstrip(s))

\* str.rstrip(chars)
RECURSIVE rstrip_chars(_, _)
rstrip_chars(s, chars) ==
    IF s = <<>> THEN <<>>
    ELSE IF s[Len(s)] \in chars THEN rstrip_chars(SubSeq(s, 1, Len(s) - 1), chars)
    ELSE s

\* str.replace(old, new) for a one-character old and a new of length 0 or 1
RECURSIVE replace(_, _, _)
replace(s, old, new) ==
    IF s = <<>> THEN <<>>
    ELSE (IF Head(s) = old THEN new ELSE <<Head(s)>>) \o replace(Tail(s), old, new)

\* a clean_text that replaces without stripping first
clean_text_unstripped(text) ==
    IF text = <<>> THEN <<>>
    ELSE replace(replace(replace(text, NL, <<SP>>), CR, <<>>), TAB, <<SP>>)

\* utils.clean_text
clean_text(text) ==
    IF text = <<>> THEN <<>>
    ELSE replace(replace(replace(strip(text), NL, <<SP>>), CR, <<>>), TAB, <<SP>>)

\* U+00B2 SUPERSCRIPT TWO: a digit for str.isdigit(), not a decimal for int()
SuperTwo == "sup2"

\* str.isdecimal()
isdecimal(s) == s # <<>> /\ \A i \in 1..Len(s) : s[i] \in Digits

\* str.isdigit(): the decimal digits and the other digit characters
isdigit(s) == s # <<>> /\ \A i \in 1..Len(s) : s[i] \in Digits \cup {SuperTwo}

DigitValue(c) ==
    CASE c = "0" -> 0 [] c = "1" -> 1 [] c = "2" -> 2 [] c = "3" -> 3
      [] c = "4" -> 4 [] c = "5" -> 5 [] c = "6" -> 6 [] c = "7" -> 7
      [] c = "8" -> 8 [] c = "9" -> 9

RECURSIVE DecimalValue(_)
DecimalValue(s) ==
    IF s = <<>> THEN 0
    ELSE 10 * DecimalValue(SubSeq(s, 1, Len(s) - 1)) + DigitValue(s[Len(s)])

\* int(text) accepts surrounding whitespace and one sign; anything else is a ValueError
IntBody(s) == IF s # <<>> /\ Head(s) \in {"+", "-"} THEN Tail(s) ELSE s
int_parses(s) == isdecimal(IntBody(strip(s)))
int(s) ==
    LET t == strip(s)
    IN  IF t # <<>> /\ Head(t) = "-" THEN 0 - DecimalValue(IntBody(t))
        ELSE DecimalValue(IntBody(t))

(***************************************************************************)
(* utils.get_retry_delay: exponential backoff with a 60 second ceiling.    *)
(***************************************************************************)
RECURSIVE Pow2(_)
Pow2(n) == IF n = 0 THEN 1 ELSE 2 * Pow2(n - 1)

Min(a, b) == IF a < b THEN a ELSE b

base_delay == 1
MaxDelay == 60

get_retry_delay_uncapped(attempt) == base_delay * Pow2(attempt)

get_retry_delay(attempt) == Min(base_delay * Pow2(attempt), MaxDelay)

(***************************************************************************)
(* Markup.  A listing entry (card) is the record of what _parse_tool_card  *)
(* looks for in it; a page is its content area, its cards in document      *)
(* order and its pagination control.  An absent element has has* = FALSE.  *)
(* The views, likes and icon fields of a record are left out: no step of   *)
(* the crawl reads them.                                                   *)
(***************************************************************************)
Card(body, app, anchor, text, hasHref, href, hasDesc, desc, hasTag, tag) ==
    [body |-> body, app |-> app, anchor |-> anchor, text |-> text,
     hasHref |-> hasHref, href |-> href, hasDesc |-> hasDesc, desc |-> desc,
     hasTag |-> hasTag, tag |-> tag]

\* the default category of create_tool_item (a three-character sentinel in the source)
Uncategorized == <<"n", "/", "a">>

NoItem == [none |-> TRUE, name |-> <<>>, description |-> <<>>, url |-> <<>>,
           category |-> <<>>]

\* utils.create_tool_item (crawl_time is the wall clock and is left out)
create_tool_item(name, description, url, category) ==
    [none |-> FALSE,
     name |-> clean_text(name),
     description |-> clean_text(description),
     url |-> strip(url),
     category |-> clean_text(category)]

\* AIToolParser._parse_tool_card: None, or the record of the card
parse_tool_card(card) ==
    IF ~card.body THEN NoItem
    ELSE IF ~card.app THEN NoItem
    ELSE IF ~card.anchor THEN NoItem
    ELSE LET name == strip(card.text)
             url == IF card.hasHref THEN card.href ELSE <<>>
             description == IF card.hasDesc THEN strip(card.desc) ELSE <<>>
             category == IF card.hasTag THEN strip(card.tag) ELSE Uncategorized
         IN  create_tool_item(name, description, url, category)

\* a parse_tool_list whose loop ends at the first card that yields None
RECURSIVE parse_tool_list_from_aborting(_)
parse_tool_list_from_aborting(cards) ==
    IF cards = <<>> THEN <<>>
    ELSE LET tool_info == parse_tool_card(Head(cards))
         IN  IF tool_info.none THEN <<>>
             ELSE <<tool_info>> \o parse_tool_list_from_aborting(Tail(cards))

\* AIToolParser.parse_tool_list: the records of the cards that parse, in document order
RECURSIVE parse_tool_list_from(_)
parse_tool_list_from(cards) ==
    IF cards = <<>> THEN <<>>
    ELSE LET tool_info == parse_tool_card(Head(cards))
         IN  (IF ~tool_info.none THEN <<tool_info>> ELSE <<>>)
                 \o parse_tool_list_from(Tail(cards))

parse_tool_list(html) == parse_tool_list_from(html.cards)

\* AIToolParser.is_valid_page: a content area and at least one card
is_valid_page(html) ==
    IF ~html.content THEN FALSE
    ELSE IF html.cards = <<>> THEN FALSE
    ELSE TRUE

RECURSIVE MaxOf(_)
MaxOf(ns) ==
    IF Len(ns) = 1 THEN ns[1]
    ELSE LET m == MaxOf(Tail(ns)) IN IF Head(ns) > m THEN Head(ns) ELSE m

RECURSIVE page_numbers(_)
page_numbers(links) ==
    IF links = <<>> THEN <<>>
    ELSE (IF isdigit(Head(links)) THEN <<int(Head(links))>> ELSE <<>>)
             \o page_numbers(Tail(links))

\* int() raises ValueError inside the list comprehension: a link text that
\* passes isdigit() and is no decimal number
page_numbers_raises(links) ==
    \E i \in 1..Len(links) : isdigit(links[i]) /\ ~int_parses(links[i])

\* AIToolParser.extract_pagination_info
extract_pagination_info(html) ==
    LET pagination == html.pagination
        current ==
            IF pagination.present /\ pagination.hasCurrent
                   /\ int_parses(pagination.current)
            THEN int(pagination.current)
            ELSE 1
        total ==
            IF pagination.present /\ ~page_numbers_raises(pagination.links)
                   /\ page_numbers(pagination.links) # <<>>
            THEN MaxOf(page_numbers(pagination.links))
            ELSE 1
    IN  [current_page |-> current, total_pages |-> total]

(***************************************************************************)
(* The pages a server may answer with.                                     *)
(***************************************************************************)
DigitSeq == <<"0", "1", "2", "3", "4", "5", "6", "7", "8", "9">>
NumText(n) == <<DigitSeq[n + 1]>>
NextText == <<"n", "e", "x", "t">>

Pagination(present, hasCurrent, current, links) ==
    [present |-> present, hasCurrent |-> hasCurrent, current |-> current,
     links |-> links]

NoPagination == Pagination(FALSE, FALSE, <<>>, <<>>)

\* the control of a listing of n pages: links "1".."n" and "next", current page "1"
PaginationOf(n) ==
    Pagination(TRUE, TRUE, NumText(1), [i \in 1..n |-> NumText(i)] \o <<NextText>>)

Markup(empty, content, cards, pagination) ==
    [empty |-> empty, content |-> content, cards |-> cards,
     pagination |-> pagination]

\* a well-formed card of page f: its link names the page
CardOf(f) ==
    Card(TRUE, TRUE, TRUE, <<"a">>, TRUE, <<"u", DigitSeq[f + 1]>>, TRUE, <<"d">>,
         TRUE, <<"t">>)
CardB == Card(TRUE, TRUE, TRUE, <<SP, "b", NL>>, TRUE, <<"v", SP>>, FALSE, <<>>, FALSE, <<>>)
CardNoBody == Card(FALSE, FALSE, FALSE, <<>>, FALSE, <<>>, FALSE, <<>>, FALSE, <<>>)
CardNoAnchor == Card(TRUE, TRUE, FALSE, <<>>, FALSE, <<>>, TRUE, <<"d">>, FALSE, <<>>)
CardNoApp == Card(TRUE, FALSE, FALSE, <<>>, FALSE, <<>>, FALSE, <<>>, FALSE, <<>>)
CardBlank == Card(TRUE, TRUE, TRUE, <<SP>>, TRUE, <<"u">>, FALSE, <<>>, FALSE, <<>>)
CardNoHref == Card(TRUE, TRUE, TRUE, <<"a">>, FALSE, <<>>, FALSE, <<>>, FALSE, <<>>)

\* card lists: three records around a card without anchor; two records, one of them
\* without link, after a card without body; an anchor without text and one without
\* link; malformed cards only
ThreeCards(f) == <<CardOf(f), CardNoAnchor, CardB, CardOf(f)>>
TwoCards(f) == <<CardNoBody, CardOf(f), CardNoHref>>
BlankCards == <<CardBlank, CardNoHref>>
MalformedCards == <<CardNoBody, CardNoAnchor>>

EmptyBody == Markup(TRUE, FALSE, <<>>, NoPagination)

\* a page without content area (a block page) that still carries cards
BlockPage(f) == Markup(FALSE, FALSE, <<CardOf(f)>>, PaginationOf(MaxPages))

\* the answers to the request for the base URL
FirstPages ==
    {EmptyBody, BlockPage(1)}
      \cup { Markup(FALSE, TRUE, cs, pg) :
               cs \in {ThreeCards(1), BlankCards, MalformedCards},
               pg \in {NoPagination} \cup { PaginationOf(n) : n \in 2..MaxPages } }

\* the answers to the request for page f > 1
OtherPages(f) ==
    {EmptyBody, BlockPage(f)}
      \cup { Markup(FALSE, TRUE, cs, PaginationOf(MaxPages)) :
               cs \in {TwoCards(f), MalformedCards} }

Served(f) == IF f = 1 THEN FirstPages ELSE OtherPages(f)

\* the three entry points of the parser on the pages that can be served,
\* tabulated once per page
ServedPages == UNION {Served(f) : f \in 1..MaxPages}
ParsedPages ==
    [html \in ServedPages |->
        [parse_tool_list |-> parse_tool_list(html),
         is_valid_page |-> is_valid_page(html),
         extract_pagination_info |-> extract_pagination_info(html)]]
AIToolParser(html) == ParsedPages[html]

(***************************************************************************)
(* State.                                                                  *)
(***************************************************************************)
Fibers == 1..MaxPages      \* 1: crawl_all's own fetch; p > 1: crawl_page(p)
PageOps == 2..MaxPages

VARIABLES
    max_retries,    \* AICrawler.max_retries
    session,        \* AICrawler.session: "none", "open" or "closed"
    tools,          \* AICrawler.tools
    scoped,         \* the crawler was entered with "async with"
    pc,             \* where run_crawler / crawl_all stands
    page,           \* the loop variable of the fan-out loop
    total_pages,    \* crawl_all's total_pages, 0 before it is assigned
    report,         \* <<successful_pages, total_pages - 1>> once logged
    op,             \* per page > 1: the state of its crawl_page coroutine
    result,         \* per page > 1: what crawl_page returned
    fst,            \* per fiber: the state of its fetch_page call
    retry_count,    \* per fiber: fetch_page's retry_count
    last,           \* per fiber: how the attempt that ended its fetch_page call ended
    ret,            \* per fiber: what fetch_page returned (html_content)
    gets,           \* per fiber: number of session.get requests issued
    delays,         \* per fiber: the delays slept between its attempts
    appended,       \* the pages whose records were appended, in order
    yielded,        \* per fiber: the records held by the markup its fetch returned
                    \* when that is a valid page, <<>> otherwise
    first_valid,    \* what is_valid_page said of the first page: "none" before
    opened,         \* number of ClientSession objects created
    closed,         \* number of session.close() calls
    saved,          \* number of save_data calls
    exc,            \* the exception leaving the run, or "none"
    probe           \* the latest direct call of a pure function

frameVars == <<fst, retry_count, last, ret, gets, delays>>
scopeVars == <<session, scoped, opened, closed>>
crawlVars == <<page, total_pages, report>>
pageVars == <<op, result>>
aggVars == <<tools, appended, yielded, first_valid>>

vars == <<max_retries, pc, exc, probe, saved, frameVars, scopeVars, crawlVars,
          pageVars, aggVars>>

None == [none |-> TRUE, html |-> EmptyBody]
Text(html) == [none |-> FALSE, html |-> html]

\* Python's "not html_content": None or the empty string
falsy(r) == r.none \/ r.html.empty

NoProbe == [fn |-> "none", arg |-> 0, out |-> 0]

Init ==
    /\ max_retries \in 0..MaxRetries
    /\ session = "none"
    /\ tools = <<>>
    /\ scoped = FALSE
    /\ pc = "start"
    /\ page = 2
    /\ total_pages = 0
    /\ report = <<>>
    /\ op = [p \in PageOps |-> "none"]
    /\ result = [p \in PageOps |-> "none"]
    /\ fst = [f \in Fibers |-> "idle"]
    /\ retry_count = [f \in Fibers |-> 0]
    /\ last = [f \in Fibers |-> "none"]
    /\ ret = [f \in Fibers |-> None]
    /\ gets = [f \in Fibers |-> 0]
    /\ delays = [f \in Fibers |-> <<>>]
    /\ appended = <<>>
    /\ yielded = [f \in Fibers |-> <<>>]
    /\ first_valid = "none"
    /\ opened = 0
    /\ closed = 0
    /\ saved = 0
    /\ exc = "none"
    /\ probe = NoProbe

\* the frames of the fetch_page calls of the fibers in F are gone (their caller has
\* consumed the result, or they were cancelled)
drop_frames(F) ==
    /\ fst' = [f \in Fibers |-> IF f \in F THEN "idle" ELSE fst[f]]
    /\ retry_count' = [f \in Fibers |-> IF f \in F THEN 0 ELSE retry_count[f]]
    /\ last' = [f \in Fibers |-> IF f \in F THEN "none" ELSE last[f]]
    /\ ret' = [f \in Fibers |-> IF f \in F THEN None ELSE ret[f]]
    /\ gets' = [f \in Fibers |-> IF f \in F THEN 0 ELSE gets[f]]
    /\ delays' = [f \in Fibers |-> IF f \in F THEN <<>> ELSE delays[f]]

(***************************************************************************)
(* AICrawler.fetch_page.  One action is one attempt: the session check,    *)
(* the GET, the status test, the decoding of the body and the write of     *)
(* debug_page.html, then either the return or the except clause with its   *)
(* backoff sleep and the recursive call.                                   *)
(***************************************************************************)
\* how an attempt on an open session can end: HTTP 200 and the debug file written,
\* another status, a network/timeout/decoding exception, HTTP 200 with the body
\* decoded and an OSError from the write of the debug file
Outcomes == {"ok", "status", "exception", "write_error"}

\* how the attempt ends given the session: a missing session raises RuntimeError
\* before any request, a closed one raises it from session.get
attempt_kind(o) ==
    IF session = "none" THEN "no_session"
    ELSE IF session = "closed" THEN "closed_session"
    ELSE o

caught_client_errors_only(kind) == kind = "exception"

\* "except Exception" catches every exception an attempt raises
caught(kind) == TRUE

\* "if retry_count < self.max_retries"
should_retry(f) == retry_count[f] < max_retries

FetchAttempt(f) ==
    /\ fst[f] = "request"
    /\ \E o \in Outcomes :
         LET kind == attempt_kind(o)
         IN  /\ gets' = IF session = "open" THEN [gets EXCEPT ![f] = @ + 1] ELSE gets
             /\ IF kind = "ok"
                THEN /\ fst' = [fst EXCEPT ![f] = "returned"]
                     /\ last' = [last EXCEPT ![f] = kind]
                     /\ \E body \in Served(f) : ret' = [ret EXCEPT ![f] = Text(body)]
                     /\ UNCHANGED <<retry_count, delays>>
                ELSE IF kind = "status"
                THEN /\ fst' = [fst EXCEPT ![f] = "returned"]
                     /\ last' = [last EXCEPT ![f] = kind]
                     /\ ret' = [ret EXCEPT ![f] = None]
                     /\ UNCHANGED <<retry_count, delays>>
                ELSE IF ~caught(kind)
                THEN /\ fst' = [fst EXCEPT ![f] = "raised"]
                     /\ last' = [last EXCEPT ![f] = kind]
                     /\ UNCHANGED <<ret, retry_count, delays>>
                ELSE IF should_retry(f)
                THEN /\ delays' = [delays EXCEPT
                                     ![f] = Append(@, get_retry_delay(retry_count[f]))]
                     /\ retry_count' = [retry_count EXCEPT ![f] = @ + 1]
                     /\ UNCHANGED <<fst, ret, last>>
                ELSE /\ fst' = [fst EXCEPT ![f] = "returned"]
                     /\ last' = [last EXCEPT ![f] = kind]
                     /\ ret' = [ret EXCEPT ![f] = None]
                     /\ UNCHANGED <<retry_count, delays>>
    /\ UNCHANGED <<max_retries, pc, exc, probe, saved, scopeVars, crawlVars,
                   pageVars, aggVars>>

(***************************************************************************)
(* AICrawler.__aenter__ / __aexit__ and run_crawler.                       *)
(***************************************************************************)
AEnter ==
    /\ pc = "start"
    /\ session' = "open"
    /\ opened' = opened + 1
    /\ scoped' = TRUE
    /\ pc' = "entered"
    /\ UNCHANGED <<max_retries, exc, probe, saved, closed, frameVars, crawlVars,
                   pageVars, aggVars>>

AExit_on_success_only ==
    /\ pc = "aexit"
    /\ IF session # "none" /\ exc = "none"
       THEN session' = "closed" /\ closed' = closed + 1
       ELSE UNCHANGED <<session, closed>>
    /\ pc' = "done"
    /\ UNCHANGED <<max_retries, exc, probe, saved, scoped, opened, frameVars,
                   crawlVars, pageVars, aggVars>>

AExit ==
    /\ pc = "aexit"
    /\ IF session # "none"
       THEN session' = "closed" /\ closed' = closed + 1
       ELSE UNCHANGED <<session, closed>>
    /\ pc' = "done"
    /\ UNCHANGED <<max_retries, exc, probe, saved, scoped, opened, frameVars,
                   crawlVars, pageVars, aggVars>>

\* where control goes when crawl_all returns (e = "none") or raises e: back into
\* run_crawler's "async with" block, or to a caller that used the crawler unscoped
crawl_all_ends(e) ==
    /\ exc' = e
    /\ pc' = IF ~scoped THEN "done" ELSE IF e = "none" THEN "crawled" ELSE "aexit"

\* a run_crawler that saves without testing crawler.tools
AfterCrawl_saves_always ==
    /\ pc = "crawled"
    /\ saved' = saved + 1
    /\ \E e \in {"none", "OSError"} : exc' = e
    /\ pc' = "aexit"
    /\ UNCHANGED <<max_retries, probe, frameVars, scopeVars, crawlVars, pageVars,
                   aggVars>>

\* "if crawler.tools: save_data(...)"; save_data may raise (makedirs, open)
AfterCrawl ==
    /\ pc = "crawled"
    /\ IF tools # <<>>
       THEN /\ saved' = saved + 1
            /\ \E e \in {"none", "OSError"} : exc' = e
       ELSE UNCHANGED <<saved, exc>>
    /\ pc' = "aexit"
    /\ UNCHANGED <<max_retries, probe, frameVars, scopeVars, crawlVars, pageVars,
                   aggVars>>

(***************************************************************************)
(* AICrawler.crawl_all.                                                    *)
(***************************************************************************)
\* entering crawl_all: the call fetch_page(self.base_url), up to its request
CrawlAllStart ==
    /\ pc \in {"start", "entered"}
    /\ pc' = "first_fetch"
    /\ fst' = [fst EXCEPT ![1] = "request"]
    /\ UNCHANGED <<max_retries, exc, probe, saved, retry_count, last, ret, gets,
                   delays, scopeVars, crawlVars, pageVars, aggVars>>

page_range_short(total) == 2..(total - 1)

\* "range(2, total_pages + 1)"
page_range(total) == 2..total

\* a gather that schedules none of the coroutines it was given
gathered_none(ops) == ops

\* asyncio.gather(*tasks): every coroutine created so far starts and runs to its
\* pacing sleep
gathered(ops) == [p \in PageOps |-> IF ops[p] = "created" THEN "pacing" ELSE ops[p]]

first_page_tools_unvalidated(html) == AIToolParser(html).parse_tool_list

\* lines 154-163: the records a first page adds: those of a valid page
first_page_tools(html) ==
    IF AIToolParser(html).is_valid_page THEN AIToolParser(html).parse_tool_list ELSE <<>>

first_fetch_failed_never(r) == FALSE

\* "if not html_content" after the first fetch
first_fetch_failed(r) == falsy(r)

\* the rest of crawl_all up to its next await, once fetch_page has returned
CrawlAllFirst ==
    /\ pc = "first_fetch"
    /\ fst[1] \in {"returned", "raised"}
    /\ IF fst[1] = "raised"
       THEN /\ crawl_all_ends(last[1])
            /\ UNCHANGED <<aggVars, total_pages, page, op>>
       ELSE IF first_fetch_failed(ret[1])
       THEN /\ crawl_all_ends("none")
            /\ UNCHANGED <<aggVars, total_pages, page, op>>
       ELSE LET html == ret[1].html
                page_tools == first_page_tools(html)
                total == AIToolParser(html).extract_pagination_info.total_pages
            IN  /\ tools' = tools \o page_tools
                /\ yielded' = [yielded EXCEPT
                                 ![1] = IF AIToolParser(html).is_valid_page
                                        THEN AIToolParser(html).parse_tool_list ELSE <<>>]
                /\ appended' = IF page_tools # <<>> THEN Append(appended, 1)
                               ELSE appended
                /\ first_valid' = IF AIToolParser(html).is_valid_page THEN "True" ELSE "False"
                /\ total_pages' = total
                /\ page' = 2
                /\ IF total > 1
                   THEN /\ pc' = IF page_range(total) # {} THEN "fanout" ELSE "gather"
                        /\ UNCHANGED exc
                   ELSE crawl_all_ends("none")
                /\ UNCHANGED op
    /\ drop_frames({1})
    /\ UNCHANGED <<max_retries, probe, saved, scopeVars, report, result>>

\* a fan-out that schedules the page operation as a task when it creates it
tasks_append_started(ops, p) == [ops EXCEPT ![p] = "pacing"]

\* "tasks.append(self.crawl_page(page))": a coroutine object, not yet running
tasks_append(ops, p) == [ops EXCEPT ![p] = "created"]

\* one round of the fan-out loop: the staggering sleep ends and the coroutine of the
\* page is created; after the last round the coroutines are gathered
FanOutStep ==
    /\ pc = "fanout"
    /\ page \in page_range(total_pages)
    /\ LET created == tasks_append(op, page)
       IN  IF page + 1 \in page_range(total_pages)
           THEN op' = created /\ page' = page + 1 /\ pc' = pc
           ELSE op' = gathered(created) /\ page' = page /\ pc' = "gather"
    /\ UNCHANGED <<max_retries, exc, probe, saved, frameVars, scopeVars,
                   total_pages, report, result, aggVars>>

(***************************************************************************)
(* AICrawler.crawl_page(p) for a page p > 1.                               *)
(***************************************************************************)
\* the pacing sleep ends and fetch_page(url) is called, up to its request
PacingDone(p) ==
    /\ op[p] = "pacing"
    /\ op' = [op EXCEPT ![p] = "fetching"]
    /\ fst' = [fst EXCEPT ![p] = "request"]
    /\ UNCHANGED <<max_retries, pc, exc, probe, saved, retry_count, last, ret, gets,
                   delays, scopeVars, crawlVars, result, aggVars>>

crawl_page_body_true_when_valid(r) ==
    IF falsy(r) THEN [ok |-> FALSE, tools |-> tools]
    ELSE IF ~AIToolParser(r.html).is_valid_page THEN [ok |-> FALSE, tools |-> tools]
    ELSE [ok |-> TRUE, tools |-> tools \o AIToolParser(r.html).parse_tool_list]

crawl_page_body_assigns(r) ==
    IF falsy(r) THEN [ok |-> FALSE, tools |-> tools]
    ELSE IF ~AIToolParser(r.html).is_valid_page THEN [ok |-> FALSE, tools |-> tools]
    ELSE LET page_tools == AIToolParser(r.html).parse_tool_list
         IN  IF page_tools # <<>>
             THEN [ok |-> TRUE, tools |-> page_tools]
             ELSE [ok |-> FALSE, tools |-> tools]

crawl_page_body_prepends(r) ==
    IF falsy(r) THEN [ok |-> FALSE, tools |-> tools]
    ELSE IF ~AIToolParser(r.html).is_valid_page THEN [ok |-> FALSE, tools |-> tools]
    ELSE LET page_tools == AIToolParser(r.html).parse_tool_list
         IN  IF page_tools # <<>>
             THEN [ok |-> TRUE, tools |-> page_tools \o tools]
             ELSE [ok |-> FALSE, tools |-> tools]

\* lines 128-143: what crawl_page returns and what self.tools is afterwards, given
\* what fetch_page returned
crawl_page_body(r) ==
    IF falsy(r) THEN [ok |-> FALSE, tools |-> tools]
    ELSE IF ~AIToolParser(r.html).is_valid_page THEN [ok |-> FALSE, tools |-> tools]
    ELSE LET page_tools == AIToolParser(r.html).parse_tool_list
         IN  IF page_tools # <<>>
             THEN [ok |-> TRUE, tools |-> tools \o page_tools]
             ELSE [ok |-> FALSE, tools |-> tools]

\* the rest of crawl_page once fetch_page has returned (or raised)
CrawlPageFinish(p) ==
    /\ op[p] = "fetching"
    /\ fst[p] \in {"returned", "raised"}
    /\ IF fst[p] = "raised"
       THEN /\ op' = [op EXCEPT ![p] = "raised"]
            /\ result' = [result EXCEPT ![p] = last[p]]
            /\ UNCHANGED aggVars
       ELSE LET out == crawl_page_body(ret[p])
            IN  /\ op' = [op EXCEPT ![p] = "done"]
                /\ result' = [result EXCEPT ![p] = IF out.ok THEN "True" ELSE "False"]
                /\ tools' = out.tools
                /\ yielded' = [yielded EXCEPT
                                 ![p] = IF ~falsy(ret[p]) /\ AIToolParser(ret[p].html).is_valid_page
                                        THEN AIToolParser(ret[p].html).parse_tool_list ELSE <<>>]
                /\ appended' = IF out.tools # tools THEN Append(appended, p)
                               ELSE appended
                /\ UNCHANGED first_valid
    /\ drop_frames({p})
    /\ UNCHANGED <<max_retries, pc, exc, probe, saved, scopeVars, crawlVars>>

\* "sum(1 for r in results if r)"
successful_pages(total) ==
    Cardinality({p \in page_range(total) : result[p] = "True"})

\* "await asyncio.gather(*tasks)" returns once every page operation has returned,
\* or raises the exception of one that raised; then the success report is logged
GatherDone ==
    /\ pc = "gather"
    /\ IF \E p \in PageOps : op[p] = "raised"
       THEN /\ crawl_all_ends(result[CHOOSE p \in PageOps : op[p] = "raised"])
            /\ UNCHANGED report
       ELSE /\ \A p \in page_range(total_pages) : op[p] = "done"
            /\ report' = <<successful_pages(total_pages), total_pages - 1>>
            /\ crawl_all_ends("none")
    /\ UNCHANGED <<max_retries, probe, saved, frameVars, scopeVars, page,
                   total_pages, pageVars, aggVars>>

(***************************************************************************)
(* main: a keyboard interrupt (or any cancellation of the run) reaches     *)
(* crawl_all at the await it is suspended in; the coroutines it awaits are *)
(* cancelled with it and the exception leaves through __aexit__.           *)
(***************************************************************************)
suspended ==
    IF pc = "first_fetch" THEN fst[1] = "request"
    ELSE IF pc = "fanout" THEN TRUE
    ELSE IF pc = "gather"
    THEN \E p \in page_range(total_pages) : op[p] \notin {"done", "raised"}
    ELSE FALSE

Interrupt ==
    /\ suspended
    /\ op' = [p \in PageOps |->
                IF op[p] \in {"created", "pacing", "fetching"} THEN "cancelled"
                ELSE op[p]]
    /\ drop_frames(Fibers)
    /\ crawl_all_ends("CancelledError")
    /\ UNCHANGED <<max_retries, probe, saved, scopeVars, crawlVars, result, aggVars>>

(***************************************************************************)
(* The URL of a page: AICrawler.__init__ and the head of crawl_page.       *)
(***************************************************************************)
\* str(n) for n >= 0
RECURSIVE str(_)
str(n) ==
    IF n < 10 THEN <<DigitSeq[n + 1]>>
    ELSE str(n \div 10) \o <<DigitSeq[(n % 10) + 1]>>

\* "self.base_url = base_url.rstrip('/')"
init_base_url(base_url) == rstrip_chars(base_url, {"/"})

\* lines 117-120, given self.base_url: f"{self.base_url}page/{page}" for page > 1
page_url(base_url, pg) ==
    IF pg > 1 THEN base_url \o <<"p", "a", "g", "e", "/">> \o str(pg)
    ELSE base_url

\* https://x/y/ and the same base without and with two trailing slashes
BaseXY == <<"h", "t", "t", "p", "s", ":", "/", "/", "x", "/", "y">>
BaseUrls == {BaseXY, BaseXY \o <<"/">>, BaseXY \o <<"/", "/">>}

(***************************************************************************)
(* Direct calls of the pure functions.                                     *)
(***************************************************************************)
\* texts of up to MaxText characters and the text " a\nb\tc\r "
TextChars == {SP, NL, CR, TAB, "a"}
TextExample == <<SP, "a", NL, "b", TAB, "c", CR, SP>>
TextInputs == UNION {[1..k -> TextChars] : k \in 0..MaxText} \cup {TextExample}

\* utils.clean_text(text)
CallCleanText ==
    /\ pc = "start"
    /\ \E text \in TextInputs :
         probe' = [fn |-> "clean_text", arg |-> text, out |-> clean_text(text)]
    /\ pc' = "called"
    /\ UNCHANGED <<max_retries, exc, saved, frameVars, scopeVars, crawlVars,
                   pageVars, aggVars>>

\* listing pages of up to MaxCards cards, well-formed and malformed in any order
CardInputs == {CardOf(1), CardOf(2), CardB, CardNoBody, CardNoApp, CardNoAnchor}

\* AIToolParser.parse_tool_list(html_content)
CallParseToolList ==
    /\ pc = "start"
    /\ \E cards \in UNION {[1..k -> CardInputs] : k \in 0..MaxCards} :
         probe' = [fn |-> "parse_tool_list", arg |-> cards,
                   out |-> parse_tool_list(Markup(FALSE, TRUE, cards, NoPagination))]
    /\ pc' = "called"
    /\ UNCHANGED <<max_retries, exc, saved, frameVars, scopeVars, crawlVars,
                   pageVars, aggVars>>

\* texts of the current-page marker and of the page-number links
MinusThree == <<"-", "3">>
CurrentTexts == {NumText(1), NumText(0), MinusThree, NumText(9), <<"x">>}
LinkTexts == {NumText(1), NumText(2), NumText(5), NumText(0), NextText,
              MinusThree, <<SuperTwo>>}
SeqsUpTo(S, n) == UNION {[1..k -> S] : k \in 0..n}
LinksExample == <<NumText(1), NumText(2), NextText, NumText(5)>>
PaginationInputs ==
    {NoPagination}
        \cup {Pagination(TRUE, FALSE, <<>>, ls) :
                  ls \in SeqsUpTo(LinkTexts, MaxLinks) \cup {LinksExample}}
        \cup {Pagination(TRUE, TRUE, c, ls) :
                  c \in CurrentTexts, ls \in SeqsUpTo(LinkTexts, MaxLinks)}

\* AIToolParser.extract_pagination_info(html_content)
CallExtractPaginationInfo ==
    /\ pc = "start"
    /\ \E pagination \in PaginationInputs :
         probe' = [fn |-> "extract_pagination_info", arg |-> pagination,
                   out |-> extract_pagination_info(
                               Markup(FALSE, TRUE, <<>>, pagination))]
    /\ pc' = "called"
    /\ UNCHANGED <<max_retries, exc, saved, frameVars, scopeVars, crawlVars,
                   pageVars, aggVars>>

\* AICrawler(base_url) and the URL its crawl_page(pg) builds
CallCrawlPageUrl ==
    /\ pc = "start"
    /\ \E base_url \in BaseUrls, pg \in 1..MaxPages :
         probe' = [fn |-> "crawl_page_url", arg |-> <<base_url, pg>>,
                   out |-> page_url(init_base_url(base_url), pg)]
    /\ pc' = "called"
    /\ UNCHANGED <<max_retries, exc, saved, frameVars, scopeVars, crawlVars,
                   pageVars, aggVars>>

\* get_retry_delay(0), ..., get_retry_delay(attempt)
CallGetRetryDelay ==
    /\ pc = "start"
    /\ \E attempt \in 0..MaxAttempt :
         probe' = [fn |-> "get_retry_delay", arg |-> attempt,
                   out |-> [k \in 1..(attempt + 1) |-> get_retry_delay(k - 1)]]
    /\ pc' = "called"
    /\ UNCHANGED <<max_retries, exc, saved, frameVars, scopeVars, crawlVars,
                   pageVars, aggVars>>

Next ==
    \/ AEnter
    \/ CrawlAllStart
    \/ \E f \in Fibers : FetchAttempt(f)
    \/ CrawlAllFirst
    \/ FanOutStep
    \/ \E p \in PageOps : PacingDone(p)
    \/ \E p \in PageOps : CrawlPageFinish(p)
    \/ GatherDone
    \/ AfterCrawl
    \/ AExit
    \/ Interrupt
    \/ CallGetRetryDelay
    \/ CallCrawlPageUrl
    \/ CallExtractPaginationInfo
    \/ CallParseToolList
    \/ CallCleanText

Spec == Init /\ [][Next]_vars

\* the steps the event loop of asyncio.run takes by itself: a request that
\* completes, a sleep that ends, a coroutine that resumes; an interrupt is not
\* among them
Progress ==
    \/ AEnter
    \/ CrawlAllStart
    \/ \E f \in Fibers : FetchAttempt(f)
    \/ CrawlAllFirst
    \/ FanOutStep
    \/ \E p \in PageOps : PacingDone(p)
    \/ \E p \in PageOps : CrawlPageFinish(p)
    \/ GatherDone
    \/ AfterCrawl
    \/ AExit

\* the run under an event loop that keeps running what is ready, every request
\* and every sleep completing
FairSpec == Spec /\ WF_vars(Progress)

(***************************************************************************)
(* Properties.                                                             *)
(***************************************************************************)

\* C1: a fetch_page call on an open session in which every attempt failed (by an
\* exception or by a non-200 status) has issued max_retries + 1 requests when it
\* returns None.
C1_AttemptsAfterFailures ==
    \A f \in Fibers :
        (fst[f] = "returned" /\ ret[f].none /\ last[f] \in {"exception", "status"})
            => gets[f] = max_retries + 1

\* C2: fetch_page never raises: no call ends raised, no exception of an attempt
\* leaves the run, a call that ends after a caught exception has used up its
\* retries and returns None, and a call that ends with HTTP 200 returns text.
AttemptErrors == {"exception", "write_error", "no_session", "closed_session"}

C2_FetchNeverRaises ==
    /\ exc \notin AttemptErrors
    /\ \A p \in PageOps : op[p] # "raised"
    /\ \A f \in Fibers :
        /\ fst[f] # "raised"
        /\ (fst[f] = "returned" /\ last[f] \in AttemptErrors)
               => (ret[f] = None /\ retry_count[f] = max_retries)
        /\ (fst[f] = "returned" /\ last[f] = "status") => ret[f] = None
        /\ (fst[f] = "returned" /\ last[f] = "ok") => ~ret[f].none

\* a call whose every request raised has used up its retries and returned None
C2_Witness ==
    \E f \in Fibers :
        /\ fst[f] = "returned"
        /\ last[f] = "exception"
        /\ ret[f] = None
        /\ max_retries > 0
        /\ gets[f] = max_retries + 1

\* C3: an attempt that received HTTP 200 and decoded the body makes fetch_page
\* return that body, also when the write of the debug file failed.
C3_WriteFailureKeepsBody ==
    \A f \in Fibers :
        (fst[f] = "returned" /\ last[f] = "write_error") => ~ret[f].none

\* C4: the delay slept before the retry after failed attempt k is 1, 2, 4, 8, 16,
\* 32, 60 for k = 0..6 and 60 from then on; the sequence never decreases and
\* never exceeds 60.
DelayTable == <<1, 2, 4, 8, 16, 32, 60>>
ExpectedDelay(k) == IF k < Len(DelayTable) THEN DelayTable[k + 1] ELSE 60

FollowsTable(ds) ==
    /\ \A i \in 1..Len(ds) : ds[i] = ExpectedDelay(i - 1) /\ ds[i] <= 60
    /\ \A i \in 1..(Len(ds) - 1) : ds[i] <= ds[i + 1]

C4_BackoffDelays ==
    /\ \A f \in Fibers : Len(delays[f]) = retry_count[f] /\ FollowsTable(delays[f])
    /\ probe.fn = "get_retry_delay" => FollowsTable(probe.out)

\* the delays for attempts 0..6 have been computed, the last one capped
C4_Witness ==
    /\ probe.fn = "get_retry_delay"
    /\ Len(probe.out) >= 7
    /\ probe.out[7] = 60

\* the delays of a call that used up its retries are recorded
C4_WitnessSlept == \E f \in Fibers : Len(delays[f]) = MaxRetries /\ MaxRetries > 0

\* C5: when the first fetch has returned None, the step crawl_all takes next ends
\* it normally with nothing appended, no pagination read, no page operation
\* created and no exception.
FirstFetchReturnedNone == pc = "first_fetch" /\ fst[1] = "returned" /\ ret[1].none

C5_FirstFetchFailureEndsRun ==
    [][FirstFetchReturnedNone =>
         (/\ pc' \in {"crawled", "done"}
          /\ exc' = "none"
          /\ tools' = <<>>
          /\ appended' = <<>>
          /\ total_pages' = 0
          /\ report' = <<>>
          /\ \A p \in PageOps : op'[p] = "none")]_vars

\* crawl_all has returned to run_crawler without having read a total page count,
\* after a first fetch that used up its retries
C5_Witness ==
    /\ pc = "crawled"
    /\ total_pages = 0
    /\ tools = <<>>
    /\ exc = "none"
    /\ max_retries > 0

\* C6: crawl_page returns False and appends nothing when its fetch failed
\* or the page is invalid, and in every other case appends the records of the page
\* and returns True.
CrawlPageReturns(p) == op[p] = "fetching" /\ fst[p] = "returned" /\ op'[p] = "done"

C6_TrueWheneverValid ==
    [][\A p \in PageOps :
         CrawlPageReturns(p) =>
             IF falsy(ret[p]) \/ ~is_valid_page(ret[p].html)
             THEN result'[p] = "False" /\ tools' = tools
             ELSE /\ result'[p] = "True"
                  /\ tools' = tools \o parse_tool_list(ret[p].html)]_vars

\* C6 amended: crawl_page returns False and appends nothing when its fetch failed,
\* the page is invalid, or the valid page yields no record; in every other case it
\* appends the records of the page and returns True.
C6_TrueWhenRecords ==
    [][\A p \in PageOps :
         CrawlPageReturns(p) =>
             IF \/ falsy(ret[p])
                \/ ~is_valid_page(ret[p].html)
                \/ parse_tool_list(ret[p].html) = <<>>
             THEN result'[p] = "False" /\ tools' = tools
             ELSE /\ result'[p] = "True"
                  /\ tools' = tools \o parse_tool_list(ret[p].html)]_vars

\* one page operation has returned True with its records appended, another one has
\* returned False
C6_Witness ==
    \E p, q \in PageOps :
        /\ op[p] = "done" /\ result[p] = "True"
        /\ yielded[p] # <<>> /\ p \in {appended[i] : i \in DOMAIN appended}
        /\ op[q] = "done" /\ result[q] = "False"

\* C7: when crawl_all returns, every page operation of 2..total_pages has
\* completed whatever the others did, and the aggregate is the records of a valid
\* first page followed by the records of exactly the pages whose operation
\* returned True, each page once, so its size is the sum of their record counts.
RECURSIVE BlocksOf(_)
BlocksOf(order) ==
    IF order = <<>> THEN <<>> ELSE yielded[Head(order)] \o BlocksOf(Tail(order))

RECURSIVE SumLen(_)
SumLen(S) ==
    IF S = {} THEN 0
    ELSE LET x == CHOOSE x \in S : TRUE IN Len(yielded[x]) + SumLen(S \ {x})

Succeeded == {p \in 2..total_pages : result[p] = "True"}

C7_AggregateAfterFailures ==
    (pc = "crawled" /\ total_pages >= 1) =>
        LET contributors == Succeeded \cup (IF yielded[1] # <<>> THEN {1} ELSE {})
        IN  /\ \A p \in 2..total_pages :
                   op[p] = "done" /\ result[p] \in {"True", "False"}
            /\ {appended[i] : i \in DOMAIN appended} = contributors
            /\ Len(appended) = Cardinality(contributors)
            /\ tools = BlocksOf(appended)
            /\ Len(tools) = Len(yielded[1]) + SumLen(Succeeded)

\* a run over three pages in which page 2 failed and pages 1 and 3 gave 3 + 2 records
C7_Witness ==
    /\ pc = "crawled"
    /\ total_pages = 3
    /\ result[2] = "False"
    /\ result[3] = "True"
    /\ Len(yielded[1]) = 3
    /\ Len(tools) = 5

\* C8: page operations exist only for the pages 2..total_pages of a run with
\* total_pages > 1; when crawl_all returns each of them has completed and the
\* report is the number that returned True out of total_pages - 1; a run with
\* total_pages <= 1 has no page operation and no report.
C8_OneOperationPerPage ==
    /\ \A p \in PageOps :
           op[p] # "none" => (total_pages > 1 /\ p \in 2..total_pages)
    /\ total_pages <= 1 => report = <<>>
    /\ report # <<>> => pc \in {"crawled", "aexit", "done"}
    /\ (pc = "crawled" /\ total_pages > 1) =>
           /\ \A p \in 2..total_pages : op[p] = "done"
           /\ report = <<Cardinality({p \in 2..total_pages : result[p] = "True"}),
                         total_pages - 1>>

\* a run over three pages has returned and reported 1/2
C8_Witness ==
    /\ pc = "crawled"
    /\ total_pages = 3
    /\ report = <<1, 2>>

\* C9: a run in the scoped region has created one session; the session stays open
\* until the region is left and is closed once when it has been left, whether
\* crawl_all returned, ended early or an exception is on its way out; once it is
\* closed no fetch is in flight and no page operation is left to issue one.
C9_SessionClosedOnce ==
    /\ opened = (IF scoped THEN 1 ELSE 0)
    /\ closed <= opened
    /\ (scoped /\ pc # "done") => (session = "open" /\ closed = 0)
    /\ (scoped /\ pc = "done") => (session = "closed" /\ closed = 1)
    /\ ~scoped => session = "none"
    /\ session = "closed" =>
           /\ \A f \in Fibers : fst[f] # "request"
           /\ \A p \in PageOps : op[p] \notin {"created", "pacing", "fetching"}

\* the region has been left with the exception of save_data on its way out
C9_Witness ==
    /\ pc = "done"
    /\ scoped
    /\ exc = "OSError"
    /\ closed = 1

\* the region has been left after an interrupted crawl_all
C9_WitnessInterrupted ==
    /\ pc = "done" /\ scoped /\ exc = "CancelledError" /\ closed = 1

\* C10: every record of the aggregate has a non-empty name and a non-empty url.
C10_RecordsHaveNameAndUrl ==
    \A i \in DOMAIN tools : tools[i].name # <<>> /\ tools[i].url # <<>>

\* C11: for base URL https://x/y/ the URL of page 3 is https://x/y/page/3; for
\* every page N > 1 the URL is the base, one slash and the segment page/N.
C11_OneSlashBeforePage ==
    (probe.fn = "crawl_page_url" /\ probe.arg[2] > 1) =>
        /\ probe.out = rstrip_chars(probe.arg[1], {"/"})
                           \o <<"/", "p", "a", "g", "e", "/">> \o str(probe.arg[2])
        /\ (probe.arg[1] = BaseXY \o <<"/">> /\ probe.arg[2] = 3) =>
               probe.out = <<"h", "t", "t", "p", "s", ":", "/", "/", "x", "/", "y",
                             "/", "p", "a", "g", "e", "/", "3">>

\* C12: extract_pagination_info always returns current_page >= 1 and
\* total_pages >= current_page, whatever the texts of the marker and the links.
C12_PaginationBounds ==
    probe.fn = "extract_pagination_info" =>
        /\ probe.out.current_page >= 1
        /\ probe.out.total_pages >= probe.out.current_page

\* the page numbers among the link texts: the texts that are decimal numbers
\* (a signed text counts with the non-numeric ones, as in the code's filter)
RECURSIVE ParsedLinks(_)
ParsedLinks(links) ==
    IF links = <<>> THEN {}
    ELSE (IF isdecimal(Head(links)) THEN {int(Head(links))} ELSE {})
             \cup ParsedLinks(Tail(links))

\* C13: total_pages is the maximum of the link texts that parse as integers
\* and 1 when the control is absent or has no such link; the links
\* "1","2","next","5" give 5 and no control gives {1, 1}.
C13_TotalIsMaxOfLinks ==
    probe.fn = "extract_pagination_info" =>
        LET nums == IF probe.arg.present THEN ParsedLinks(probe.arg.links) ELSE {}
        IN  /\ nums # {} =>
                   /\ probe.out.total_pages \in nums
                   /\ \A n \in nums : n <= probe.out.total_pages
            /\ nums = {} => probe.out.total_pages = 1
            /\ probe.arg.links = LinksExample => probe.out.total_pages = 5
            /\ ~probe.arg.present =>
                   probe.out = [current_page |-> 1, total_pages |-> 1]

\* a valid entry has its content blocks and its name anchor
ValidEntry(card) == card.body /\ card.app /\ card.anchor

\* C14: of K valid and M malformed entries in any interleaving parse_tool_list
\* returns exactly K records, the j-th record being that of the j-th valid
\* entry; a malformed entry gives no record and no placeholder and the entries
\* after it are still parsed.
C14_OneRecordPerValidEntry ==
    probe.fn = "parse_tool_list" =>
        LET cards == probe.arg
            valid == {i \in 1..Len(cards) : ValidEntry(cards[i])}
            rank(i) == Cardinality({k \in valid : k <= i})
        IN  /\ Len(probe.out) = Cardinality(valid)
            /\ \A j \in 1..Len(probe.out) : ~probe.out[j].none
            /\ \A i \in valid :
                   /\ probe.out[rank(i)].url = strip(cards[i].href)
                   /\ probe.out[rank(i)].name = clean_text(strip(cards[i].text))
C14_Witness ==
    /\ probe.fn = "parse_tool_list"
    /\ probe.arg = <<CardOf(2), CardNoAnchor, CardOf(1)>>
    /\ Len(probe.out) = 2
    /\ probe.out[1].url = CardOf(2).href
    /\ probe.out[2].url = CardOf(1).href

\* C15 as stated: clean_text(" a\nb\tc\r ") returns "a b c " with a trailing
\* space.
C15_ExampleKeepsTrailingSpace ==
    (probe.fn = "clean_text" /\ probe.arg = TextExample) =>
        probe.out = <<"a", SP, "b", SP, "c", SP>>

NotCR(c) == c # CR

\* C15: clean_text(" a\nb\tc\r ") returns "a b c", five characters without a
\* trailing space; for every text the result is the stripped text with every
\* carriage return removed and every newline and tab turned into a space.
C15_StripThenReplace ==
    probe.fn = "clean_text" =>
        LET kept == SelectSeq(strip(probe.arg), NotCR)
        IN  /\ Len(probe.out) = Len(kept)
            /\ \A i \in 1..Len(kept) :
                   probe.out[i] = IF kept[i] \in {NL, TAB} THEN SP ELSE kept[i]
            /\ probe.arg = TextExample => probe.out = <<"a", SP, "b", SP, "c">>
C15_Witness ==
    /\ probe.fn = "clean_text"
    /\ probe.arg = TextExample
    /\ probe.out = <<"a", SP, "b", SP, "c">>

\* C16: when the first page was fetched and is not valid, the step crawl_all
\* takes next appends nothing, still reads total_pages from the markup of that
\* page and, when it is above 1, enters the fan-out at page 2; every page of
\* 2..total_pages then has its operation by the time they are gathered.
FirstPageInvalid ==
    /\ pc = "first_fetch" /\ fst[1] = "returned"
    /\ ~falsy(ret[1]) /\ ~is_valid_page(ret[1].html)

LinkedPages(html) ==
    IF html.pagination.present THEN ParsedLinks(html.pagination.links) ELSE {}

C16_InvalidFirstPageStillFansOut ==
    /\ [][FirstPageInvalid =>
             (/\ tools' = tools /\ appended' = appended
              /\ first_valid' = "False"
              /\ IF LinkedPages(ret[1].html) = {} THEN total_pages' = 1
                 ELSE /\ total_pages' \in LinkedPages(ret[1].html)
                      /\ \A n \in LinkedPages(ret[1].html) : n <= total_pages'
              /\ IF total_pages' > 1 THEN pc' = "fanout" /\ page' = 2
                 ELSE pc' \in {"crawled", "done"})]_vars
    /\ []((first_valid = "False" /\ pc \in {"gather", "crawled"}) =>
             \A p \in 2..total_pages : op[p] # "none")

\* a run whose first page was invalid has returned with the records of a later page
C16_Witness ==
    /\ first_valid = "False"
    /\ pc = "crawled"
    /\ total_pages = MaxPages
    /\ \E p \in 2..total_pages : result[p] = "True"
    /\ tools # <<>>
    /\ \A i \in DOMAIN appended : appended[i] # 1

\* C17: at every moment of every interleaving of the page operations the
\* aggregate is the concatenation, in the order the appends completed, of one
\* contiguous block per page that appended, each block being the records of
\* that page in markup order; the block of the first page, if any, comes
\* first; no page appears twice and every appending page operation has
\* returned True.
C17_BlocksInCompletionOrder ==
    /\ tools = BlocksOf(appended)
    /\ \A i, j \in DOMAIN appended : appended[i] = appended[j] => i = j
    /\ \A i \in DOMAIN appended :
           /\ appended[i] = 1 => i = 1
           /\ yielded[appended[i]] # <<>>
           /\ appended[i] > 1 =>
                  (op[appended[i]] = "done" /\ result[appended[i]] = "True")
    /\ \A p \in PageOps :
           (op[p] = "done" /\ result[p] = "True") =>
               \E i \in DOMAIN appended : appended[i] = p

\* page 3 completed before page 2 and the aggregate holds the blocks of pages
\* 1, 3, 2 in that order
C17_Witness ==
    /\ appended = <<1, 3, 2>>
    /\ Len(tools) = Len(yielded[1]) + Len(yielded[3]) + Len(yielded[2])
    /\ tools[Len(yielded[1]) + 1] = yielded[3][1]

\* C18: while crawl_all is in its fan-out loop no page operation runs: the
\* operations of the pages whose staggering delay has elapsed exist as
\* coroutines that have not started, and no fetch of a page above 1 is in
\* progress; an operation runs only once the operations of all pages of
\* 2..total_pages have been started together, and each of them issues its
\* first request only out of its own pacing delay.
Running == {"pacing", "fetching", "done", "raised"}

C18_NoFetchBeforeGather ==
    /\ [](pc = "fanout" =>
             \A p \in PageOps :
                 /\ op[p] = (IF p \in 2..total_pages /\ p < page THEN "created"
                             ELSE "none")
                 /\ fst[p] = "idle" /\ gets[p] = 0)
    /\ []((\E p \in PageOps : op[p] \in Running) =>
             /\ pc # "fanout"
             /\ \A q \in 2..total_pages : op[q] \in Running \cup {"cancelled"})
    /\ [][\A p \in PageOps :
             /\ (op[p] \notin Running /\ op'[p] \in Running) =>
                    /\ pc = "fanout" /\ pc' = "gather"
                    /\ \A q \in 2..total_pages : op'[q] = "pacing"
             /\ (fst[p] = "idle" /\ fst'[p] = "request") =>
                    (op[p] = "pacing" /\ op'[p] = "fetching")]_vars

\* the staggering delay of page 2 has elapsed, that of page 3 has not, and the
\* operation of page 2 has not started
C18_Witness ==
    /\ pc = "fanout"
    /\ total_pages >= 3
    /\ page = 3
    /\ op[2] = "created" /\ fst[2] = "idle"
    /\ op[3] = "none"

\* C20: save_data is called at most once in a run; the call happens after
\* crawl_all returned normally, with a non-empty aggregate that it leaves
\* alone, while the session is still open, and the session is closed only
\* afterwards; a run whose aggregate is empty never calls it and still ends
\* without an exception of its own.
C20_SaveOnceBeforeClose ==
    /\ [](/\ saved <= 1
          /\ saved = 1 =>
                 /\ scoped /\ pc \in {"aexit", "done"}
                 /\ tools # <<>>
                 /\ exc \in {"none", "OSError"}
                 /\ \A p \in PageOps : op[p] \in {"none", "done"}
          /\ (scoped /\ pc \in {"aexit", "done"} /\ exc = "none") =>
                 (saved = 1 <=> tools # <<>>)
          /\ tools = <<>> => (saved = 0 /\ exc \in {"none", "CancelledError"}))
    /\ [][/\ saved' # saved =>
                 /\ saved' = saved + 1
                 /\ pc = "crawled" /\ pc' = "aexit"
                 /\ tools # <<>> /\ tools' = tools
                 /\ session = "open" /\ session' = "open"
                 /\ closed = 0 /\ closed' = 0
          /\ closed' # closed => saved' = saved
          /\ session = "closed" => saved' = saved]_vars

\* a run has saved its records once and then closed its session
C20_Witness ==
    /\ pc = "done"
    /\ saved = 1
    /\ tools # <<>>
    /\ session = "closed" /\ closed = 1
    /\ exc = "none"

\* a run over an empty aggregate has ended without a call of save_data
C20_WitnessEmpty ==
    /\ pc = "done" /\ scoped /\ first_valid = "True"
    /\ tools = <<>> /\ saved = 0 /\ exc = "none" /\ closed = 1

\* C19: every run of crawl_all ends: once started it returns to its caller
\* (or, when the run is interrupted, is cancelled), provided every request and
\* every sleep completes; on the way no fetch_page call issues more than
\* max_retries + 1 requests and the fan-out loop stays within 2..total_pages.
CrawlAllEnded ==
    \/ pc \in {"crawled", "done"} /\ exc = "none"
    \/ exc = "CancelledError"

C19_CrawlAllTerminates ==
    /\ (pc = "first_fetch") ~> CrawlAllEnded
    /\ [](\A f \in Fibers : gets[f] <= max_retries + 1 /\ retry_count[f] <= max_retries)
    /\ [](pc = "fanout" => page \in 2..total_pages)

\* a run over MaxPages pages in which every page operation used up its retries
\* has returned
C19_Witness ==
    /\ pc = "crawled"
    /\ exc = "none"
    /\ max_retries = MaxRetries
    /\ total_pages = MaxPages
    /\ report = <<0, MaxPages - 1>>

====
